---- MODULE Spec2Model ----
(***************************************************************************)
(* A model of inventory_system.py: the InventoryManager class (a stock     *)
(* dictionary and an activity log), its JSON load and save, and the main() *)
(* driver.                                                                 *)
(*                                                                         *)
(* Python values are tagged records [type, val].  A log line               *)
(* "<timestamp>: <message>" is modelled by its message; the timestamp that *)
(* datetime.now() supplies is left out of the entry.                       *)
(***************************************************************************)
EXTENDS Integers, Sequences, FiniteSets, TLC

\* ------------------------------------------------------------------ bounds

\* The quantity (besides 0) the session caller passes to add_item and
\* remove_item.
MaxArg == 2
\* The session caller never adds beyond this quantity of one item.
MaxQty == 2 * MaxArg
\* The session caller stops once the two logs together hold this many entries.
MaxLog == 3

\* ------------------------------------------------------------ Python values

PyStr(s) == [type |-> "str", val |-> s]
PyInt(n) == [type |-> "int", val |-> n]
PyNone == [type |-> "NoneType"]

\* str.strip() on the strings of the model: only "  " has surrounding
\* whitespace.
strip(s) == IF s = "  " THEN "" ELSE s

\* min(a, b) of two integers.
Min(a, b) == IF a <= b THEN a ELSE b

\* dict.get(k, default), d[k] = v and del d[k] on a dict held as a function.
DictGet(d, k, default) == IF k \in DOMAIN d THEN d[k] ELSE default
DictSet(d, k, v) == [x \in DOMAIN d \cup {k} |-> IF x = k THEN v ELSE d[x]]
DictDel(d, k) == [x \in DOMAIN d \ {k} |-> d[x]]
EmptyDict == << >>

\* ------------------------------------------------------------- JSON values

JInt(n) == [j |-> "int", n |-> n]
\* The float tenths/10, e.g. JFloat(19) is 1.9 and JFloat(-15) is -1.5.
JFloat(tenths) == [j |-> "float", tenths |-> tenths]
JString(s) == [j |-> "string", s |-> s]
JNull == [j |-> "null"]
JTrue == [j |-> "true"]
JInfinity == [j |-> "Infinity"]

\* int(s) for the strings that occur as JSON values in the model: "2" and
\* " 1 " parse (int() strips whitespace), "abc" does not.
IntOfStringOk(s) == s \in {"2", " 1 "}
IntOfString(s) == IF s = "2" THEN 2 ELSE 1

\* Truncation toward zero, as int() of a float.
Trunc10(tenths) == IF tenths >= 0 THEN tenths \div 10 ELSE -((-tenths) \div 10)

\* The exception int(v) raises on a parsed JSON value v, or "none".
IntRaises(v) ==
    CASE v.j = "int" -> "none"
      [] v.j = "float" -> "none"
      [] v.j = "true" -> "none"
      [] v.j = "string" -> IF IntOfStringOk(v.s) THEN "none" ELSE "ValueError"
      [] v.j = "null" -> "TypeError"
      [] v.j = "Infinity" -> "OverflowError"

\* int(v) where it raises nothing.
IntOf(v) ==
    CASE v.j = "int" -> v.n
      [] v.j = "float" -> Trunc10(v.tenths)
      [] v.j = "true" -> 1
      [] v.j = "string" -> IntOfString(v.s)

\* ------------------------------------------------------------------- files

DefaultFile == "inventory.json"
Paths == {DefaultFile}

\* What a file holds, by what load_data's open and json.load make of it:
\* no file (FileNotFoundError), a file open cannot read (another OSError),
\* text that is no JSON (json.JSONDecodeError), JSON whose root is no
\* object, and a JSON object with its members.
FileMissing == [kind |-> "missing"]
FileUnreadable == [kind |-> "unreadable"]
FileMalformed == [kind |-> "malformed"]
FileArray == [kind |-> "array"]
FileObject(members) == [kind |-> "object", members |-> members]

\* json.dump(self.stock_data, f, ensure_ascii=False, indent=2): an object with
\* one integer member per key.
json_dump(stock) == FileObject([k \in DOMAIN stock |-> JInt(stock[k])])

\* What the file at a path may hold when the program starts.
FileSamples ==
    { FileMissing, FileUnreadable, FileMalformed, FileArray,
      FileObject([k \in {"apple", "banana"} |->
                    IF k = "apple" THEN JInt(-1) ELSE JInt(0)]),
      FileObject([k \in {"apple", "banana", "  "} |->
                    IF k = "apple" THEN JString("2")
                    ELSE IF k = "banana" THEN JFloat(19) ELSE JNull]),
      FileObject([k \in {"apple", "banana", "  "} |->
                    IF k = "apple" THEN JString("abc")
                    ELSE IF k = "banana" THEN JFloat(-15) ELSE JTrue]),
      FileObject([k \in {"apple", "banana"} |->
                    IF k = "apple" THEN JString(" 1 ") ELSE JInfinity]) }

\* Every string that can be a key of stock_data.
Keys == {"apple", "banana", "orange", "  "}

\* -------------------------------------------------------------- log entries

AddedEntry(qty, item) == [msg |-> "Added", qty |-> qty, item |-> item]
RemovedEntry(qty, item) == [msg |-> "Removed", qty |-> qty, item |-> item]
LoadedEntry(file) == [msg |-> "Loaded inventory from", file |-> file]
NotFoundEntry == [msg |-> "Inventory file not found; initialized empty"]
ParseFailedEntry(file) == [msg |-> "Failed to parse", file |-> file]
SavedEntry(file) == [msg |-> "Saved inventory to", file |-> file]

\* ------------------------------------------------------------------- state

VARIABLES
    stock_data,    \* self.stock_data: item name -> quantity
    activity_log,  \* self.activity_log
    ext_logs,      \* the list a caller passes as the logs argument
    disk,          \* path -> what the file at the path holds
    last_call,     \* the method called most recently ("none" before any)
    raised,        \* the exception that call propagated, or "none"
    returned,      \* the value that call returned
    stdout,        \* what the statement making that call printed
    pc,            \* "session": calls in any order; otherwise the place in main()
    added          \* item name -> the sum of the quantities added to it since
                   \* it was last absent from stock_data, for the names that
                   \* only add_item has touched since then

vars == << stock_data, activity_log, ext_logs, disk, last_call, raised,
           returned, stdout, pc, added >>

\* The logs argument: None, or the caller's own list.
LogsArgs == {"None", "list"}

NoOutput == << >>

\* The call ends by raising exc: nothing but the outcome changes.
Raise(exc) ==
    /\ raised' = exc
    /\ returned' = PyNone
    /\ UNCHANGED << stock_data, activity_log, ext_logs, disk, added >>

\* The call returns value.
Return(value) ==
    /\ raised' = "none"
    /\ returned' = value

\* The statement prints nothing.
Silent == stdout' = NoOutput

\* A variant of AppendTo that puts the entry first: target_logs.insert(0, entry).
InsertFirst(logs, entry) ==
    IF logs = "None"
    THEN /\ activity_log' = << entry >> \o activity_log
         /\ UNCHANGED ext_logs
    ELSE /\ ext_logs' = << entry >> \o ext_logs
         /\ UNCHANGED activity_log

\* target_logs.append(entry), target_logs = logs if logs is not None else
\* self.activity_log.
AppendTo(logs, entry) ==
    IF logs = "None"
    THEN /\ activity_log' = Append(activity_log, entry)
         /\ UNCHANGED ext_logs
    ELSE /\ ext_logs' = Append(ext_logs, entry)
         /\ UNCHANGED activity_log

\* InventoryManager.__init__
Init ==
    /\ stock_data = EmptyDict
    /\ activity_log = << >>
    /\ ext_logs = << >>
    /\ disk \in [Paths -> FileSamples]
    /\ last_call = "none"
    /\ raised = "none"
    /\ returned = PyNone
    /\ stdout = NoOutput
    /\ pc \in {"session", "main"}
    /\ added = [k \in Keys |-> 0]

\* ---------------------------------------------------------------- add_item

\* A variant of StockAfterAdd that overwrites the stored quantity.
StockAfterAddOverwrites(current, qty) == qty

\* self.stock_data.get(item, 0) + qty
StockAfterAdd(current, qty) == current + qty

\* The type check of add_item and remove_item.
TypesOk(item, qty) == item.type = "str" /\ qty.type = "int"

\* A variant of add_item that updates the stock before it checks the sign
\* of qty.
add_item_checks_late(item, qty, logs) ==
    /\ last_call' = "add_item"
    /\ IF ~TypesOk(item, qty) THEN Raise("TypeError")
       ELSE IF strip(item.val) = "" THEN Raise("ValueError")
       ELSE /\ stock_data' = DictSet(stock_data, item.val,
                               StockAfterAdd(DictGet(stock_data, item.val, 0),
                                             qty.val))
            /\ IF qty.val < 0
               THEN /\ raised' = "ValueError"
                    /\ returned' = PyNone
                    /\ UNCHANGED << activity_log, ext_logs, disk, added >>
               ELSE /\ AppendTo(logs, AddedEntry(qty.val, item.val))
                    /\ added' = IF item.val \in DOMAIN added
                                THEN [added EXCEPT ![item.val] = @ + qty.val]
                                ELSE added
                    /\ UNCHANGED disk
                    /\ Return(PyNone)

add_item(item, qty, logs) ==
    /\ last_call' = "add_item"
    /\ IF ~TypesOk(item, qty) THEN Raise("TypeError")
       ELSE IF strip(item.val) = "" THEN Raise("ValueError")
       ELSE IF qty.val < 0 THEN Raise("ValueError")
       ELSE /\ stock_data' = DictSet(stock_data, item.val,
                               StockAfterAdd(DictGet(stock_data, item.val, 0),
                                             qty.val))
            /\ AppendTo(logs, AddedEntry(qty.val, item.val))
            /\ added' = IF item.val \in DOMAIN added
                        THEN [added EXCEPT ![item.val] = @ + qty.val]
                        ELSE added
            /\ UNCHANGED disk
            /\ Return(PyNone)

\* ------------------------------------------------------------- remove_item

\* A variant of ActualQtyRemoved that takes the requested quantity.
ActualQtyRequested(qty, current) == qty

\* actual_qty_removed = min(qty, current)
ActualQtyRemoved(qty, current) == Min(qty, current)

\* A variant of NothingToRemove without the early return.
NeverNothingToRemove(current) == FALSE

\* if current == 0: return
NothingToRemove(current) == current = 0

\* if new_qty > 0: self.stock_data[item] = new_qty, else: del
StockAfterRemove(stock, item, new_qty) ==
    IF new_qty > 0 THEN DictSet(stock, item, new_qty) ELSE DictDel(stock, item)

remove_item(item, qty, logs) ==
    /\ last_call' = "remove_item"
    /\ IF ~TypesOk(item, qty) THEN Raise("TypeError")
       ELSE IF qty.val < 0 THEN Raise("ValueError")
       ELSE LET current == DictGet(stock_data, item.val, 0)
                actual_qty_removed == ActualQtyRemoved(qty.val, current)
                new_qty == current - actual_qty_removed
            IN IF NothingToRemove(current)
               THEN /\ UNCHANGED << stock_data, activity_log, ext_logs, disk,
                                    added >>
                    /\ Return(PyNone)
               ELSE /\ stock_data' = StockAfterRemove(stock_data, item.val, new_qty)
                    /\ AppendTo(logs, RemovedEntry(actual_qty_removed, item.val))
                    /\ added' = IF new_qty > 0
                                THEN DictDel(added, item.val)
                                ELSE DictSet(added, item.val, 0)
                    /\ UNCHANGED disk
                    /\ Return(PyNone)
\* ----------------------------------------------------------------- get_qty

\* self.stock_data.get(item, 0)
StockOf(item) == DictGet(stock_data, item, 0)

get_qty(item) ==
    /\ last_call' = "get_qty"
    /\ IF item.type # "str" THEN Raise("TypeError")
       ELSE /\ UNCHANGED << stock_data, activity_log, ext_logs, disk, added >>
            /\ Return(PyInt(StockOf(item.val)))

\* --------------------------------------------------------------- load_data

\* A variant of Cleaned that also skips a member whose value is 0.
CleanedSkipsZero(members) ==
    [k \in {m \in DOMAIN members : /\ IntRaises(members[m]) = "none"
                                   /\ IntOf(members[m]) # 0} |->
        IntOf(members[k])]

\* The loop of load_data: the members int() accepts, coerced; a member whose
\* value raises TypeError or ValueError is skipped.  (A JSON object's keys
\* are always strings, so the isinstance(k, str) test skips nothing.)
Cleaned(members) ==
    [k \in {m \in DOMAIN members : IntRaises(members[m]) = "none"} |->
        IntOf(members[k])]

\* An exception of the loop that its except clause does not catch.
LoopRaises(members) ==
    IF \E k \in DOMAIN members : IntRaises(members[k]) = "OverflowError"
    THEN "OverflowError" ELSE "none"

\* A variant of LoadMissing that keeps the inventory.
LoadMissingKeeps ==
    /\ activity_log' = Append(activity_log, NotFoundEntry)
    /\ UNCHANGED << stock_data, ext_logs, disk, added >>
    /\ Return(PyNone)

\* except FileNotFoundError: start with an empty inventory.
LoadMissing ==
    /\ stock_data' = EmptyDict
    /\ activity_log' = Append(activity_log, NotFoundEntry)
    /\ added' = [k \in Keys |-> 0]
    /\ UNCHANGED << ext_logs, disk >>
    /\ Return(PyNone)

\* A variant of LoadMalformed that starts over with an empty inventory.
LoadMalformedClears(file) ==
    /\ stock_data' = EmptyDict
    /\ activity_log' = Append(activity_log, ParseFailedEntry(file))
    /\ added' = [k \in Keys |-> 0]
    /\ UNCHANGED << ext_logs, disk >>
    /\ Return(PyNone)

\* except json.JSONDecodeError: keep the existing data.
LoadMalformed(file) ==
    /\ activity_log' = Append(activity_log, ParseFailedEntry(file))
    /\ UNCHANGED << stock_data, ext_logs, disk, added >>
    /\ Return(PyNone)

\* The file parsed to a dict: the cleaned members replace the inventory.
LoadObject(file, members) ==
    IF LoopRaises(members) # "none"
    THEN Raise(LoopRaises(members))
    ELSE /\ stock_data' = Cleaned(members)
         /\ activity_log' = Append(activity_log, LoadedEntry(file))
         /\ added' = [k \in Keys \ DOMAIN Cleaned(members) |-> 0]
         /\ UNCHANGED << ext_logs, disk >>
         /\ Return(PyNone)

\* An OSError of open() other than FileNotFoundError, and the ValueError
\* raised for a root that is no dict, are not caught.
load_data(file) ==
    /\ last_call' = "load_data"
    /\ LET f == disk[file]
       IN CASE f.kind = "missing" -> LoadMissing
            [] f.kind = "unreadable" -> Raise("OSError")
            [] f.kind = "malformed" -> LoadMalformed(file)
            [] f.kind = "array" -> Raise("ValueError")
            [] f.kind = "object" -> LoadObject(file, f.members)

\* --------------------------------------------------------------- save_data

\* open(file, "w") may fail (the file is left as it was); the write may fail
\* after open has truncated the file (it is left without a complete JSON
\* text); either failure propagates as OSError before anything is logged.
save_data(file) ==
    /\ last_call' = "save_data"
    /\ \/ /\ disk' = [disk EXCEPT ![file] = json_dump(stock_data)]
          /\ activity_log' = Append(activity_log, SavedEntry(file))
          /\ UNCHANGED << stock_data, ext_logs, added >>
          /\ Return(PyNone)
       \/ Raise("OSError")
       \/ /\ disk' = [disk EXCEPT ![file] = FileMalformed]
          /\ raised' = "OSError"
          /\ returned' = PyNone
          /\ UNCHANGED << stock_data, activity_log, ext_logs, added >>

\* ------------------------------------------------------------------ reports

\* print_data: the header, then one line per item (in the dict's insertion
\* order, which the model does not keep: the lines are a set).
print_data ==
    /\ last_call' = "print_data"
    /\ stdout' = [header |-> "Items Report",
                  lines |-> IF DOMAIN stock_data = {} THEN {"(no items)"}
                            ELSE {<< k, "->", stock_data[k] >> : k \in DOMAIN stock_data}]
    /\ UNCHANGED << stock_data, activity_log, ext_logs, disk, added >>
    /\ Return(PyNone)

\* [i for i, q in self.stock_data.items() if q < threshold], as a set.
LowItems(threshold) == {i \in DOMAIN stock_data : stock_data[i] < threshold}

check_low_items(threshold) ==
    /\ last_call' = "check_low_items"
    /\ IF threshold.type # "int" \/ threshold.val < 0 THEN Raise("ValueError")
       ELSE /\ UNCHANGED << stock_data, activity_log, ext_logs, disk, added >>
            /\ Return([type |-> "list", val |-> LowItems(threshold.val)])

print_log(logs) ==
    /\ last_call' = "print_log"
    /\ LET target_logs == IF logs = "None" THEN activity_log ELSE ext_logs
       IN stdout' = [header |-> "Activity Log",
                     lines |-> IF target_logs = << >> THEN << "(no activity)" >>
                               ELSE target_logs]
    /\ UNCHANGED << stock_data, activity_log, ext_logs, disk, added >>
    /\ Return(PyNone)
\* ------------------------------------------------- a session of calls

\* The arguments a session caller passes: item names (one blank, one that is
\* no string), quantities (one negative, one that is no integer), thresholds.
ItemArgs == {PyStr("apple"), PyStr("banana"), PyStr("  "), PyInt(42)}
QtyArgs == {PyInt(-1), PyInt(0), PyInt(MaxArg), PyStr("2")}
ThresholdArgs == {PyInt(-1), PyInt(0), PyInt(MaxArg), PyNone}

\* The session goes on while the logs have room.
InSession == pc = "session" /\ Len(activity_log) + Len(ext_logs) < MaxLog

AddItem ==
    /\ InSession
    /\ \E item \in ItemArgs, qty \in QtyArgs, logs \in LogsArgs :
         /\ TypesOk(item, qty) => StockOf(item.val) + qty.val <= MaxQty
         /\ add_item(item, qty, logs)
    /\ Silent
    /\ UNCHANGED pc

RemoveItem ==
    /\ InSession
    /\ \E item \in ItemArgs, qty \in QtyArgs, logs \in LogsArgs :
         remove_item(item, qty, logs)
    /\ Silent
    /\ UNCHANGED pc

GetQty ==
    /\ InSession
    /\ \E item \in ItemArgs : get_qty(item)
    /\ Silent
    /\ UNCHANGED pc

LoadData ==
    /\ InSession
    /\ \E file \in Paths : load_data(file)
    /\ Silent
    /\ UNCHANGED pc

SaveData ==
    /\ InSession
    /\ \E file \in Paths : save_data(file)
    /\ Silent
    /\ UNCHANGED pc

PrintData ==
    /\ InSession
    /\ print_data
    /\ UNCHANGED pc

CheckLowItems ==
    /\ InSession
    /\ \E threshold \in ThresholdArgs : check_low_items(threshold)
    /\ Silent
    /\ UNCHANGED pc

PrintLog ==
    /\ InSession
    /\ \E logs \in LogsArgs : print_log(logs)
    /\ UNCHANGED pc

\* ------------------------------------------------------------------ main()

\* An exception a statement of main() raises ends the program.
Goto(next) == pc' = IF raised' = "none" THEN next ELSE "crashed"

MainLoad ==
    /\ pc = "main"
    /\ load_data(DefaultFile)
    /\ Silent
    /\ Goto("add_apple")

MainAddApple ==
    /\ pc = "add_apple"
    /\ add_item(PyStr("apple"), PyInt(10), "None")
    /\ Silent
    /\ Goto("add_banana")

MainAddBanana ==
    /\ pc = "add_banana"
    /\ add_item(PyStr("banana"), PyInt(2), "None")
    /\ Silent
    /\ Goto("remove_apple")

MainRemoveApple ==
    /\ pc = "remove_apple"
    /\ remove_item(PyStr("apple"), PyInt(3), "None")
    /\ Silent
    /\ Goto("remove_orange")

MainRemoveOrange ==
    /\ pc = "remove_orange"
    /\ remove_item(PyStr("orange"), PyInt(1), "None")
    /\ Silent
    /\ Goto("apple_stock")

MainAppleStock ==
    /\ pc = "apple_stock"
    /\ get_qty(PyStr("apple"))
    /\ stdout' = << "Apple stock:", returned' >>
    /\ Goto("low_items")

MainLowItems ==
    /\ pc = "low_items"
    /\ check_low_items(PyInt(5))
    /\ stdout' = << "Low items:", returned' >>
    /\ Goto("save")

MainSave ==
    /\ pc = "save"
    /\ save_data(DefaultFile)
    /\ Silent
    /\ Goto("print_data")

MainPrintData ==
    /\ pc = "print_data"
    /\ print_data
    /\ Goto("print_log")

MainPrintLog ==
    /\ pc = "print_log"
    /\ print_log("None")
    /\ Goto("done")

\* ----------------------------------------------------------- specification

Next ==
    \/ AddItem
    \/ RemoveItem
    \/ GetQty
    \/ LoadData
    \/ SaveData
    \/ PrintData
    \/ CheckLowItems
    \/ PrintLog
    \/ MainLoad
    \/ MainAddApple
    \/ MainAddBanana
    \/ MainRemoveApple
    \/ MainRemoveOrange
    \/ MainAppleStock
    \/ MainLowItems
    \/ MainSave
    \/ MainPrintData
    \/ MainPrintLog

Spec == Init /\ [][Next]_vars
\* ------------------------------------------------------------------ claims

\* The arguments the caller at pc passes to add_item and remove_item: the
\* session's, or those main() passes.
MainItems == {PyStr("apple"), PyStr("banana"), PyStr("orange")}
MainQtys == {PyInt(10), PyInt(2), PyInt(3), PyInt(1)}
CallItems == IF pc = "session" THEN ItemArgs ELSE MainItems
CallQtys == IF pc = "session" THEN QtyArgs ELSE MainQtys
\* Those that pass the validation of remove_item.
ValidItems == {item \in CallItems : item.type = "str"}
ValidQtys == {qty \in CallQtys : qty.type = "int" /\ qty.val >= 0}

Last(log) == log[Len(log)]

\* The target log of a call grew by exactly entry; the other log is as it was.
Logged(logs, entry) ==
    IF logs = "None"
    THEN activity_log' = Append(activity_log, entry) /\ ext_logs' = ext_logs
    ELSE ext_logs' = Append(ext_logs, entry) /\ activity_log' = activity_log

\* The ledger and both logs are as they were.
Untouched ==
    /\ stock_data' = stock_data
    /\ activity_log' = activity_log
    /\ ext_logs' = ext_logs

\* C1: every key of the ledger maps to a strictly positive integer; no key
\* maps to zero or to a negative number.
C1_EveryQuantityPositive ==
    \A k \in DOMAIN stock_data : stock_data[k] > 0

\* C2: after remove(item, q) with valid arguments and q >= the item's
\* current quantity, the item is absent from the ledger.
C2_RemoveAllLeavesAbsent ==
    [][(last_call' = "remove_item" /\ raised' = "none") =>
         \A item \in ValidItems, qty \in ValidQtys, logs \in LogsArgs :
            (remove_item(item, qty, logs) /\ qty.val >= StockOf(item.val))
            => item.val \notin DOMAIN stock_data']_vars

\* C3: for an item that only add_item has touched since it was absent,
\* the ledger holds, and get_qty returns, the sum of the quantities added.
C3_QueryIsSumOfAdds ==
    /\ [](\A k \in DOMAIN added : StockOf(k) = added[k])
    /\ [][last_call' = "get_qty" =>
            \A item \in ItemArgs \cup MainItems :
               (get_qty(item) /\ item.type = "str" /\ item.val \in DOMAIN added)
               => (raised' = "none" /\ returned' = PyInt(added[item.val]))]_vars

\* C3's case: the adds to apple sum to twice MaxArg, which takes two of
\* them, while banana is in the ledger.
C3_Witness ==
    /\ "apple" \in DOMAIN added
    /\ added["apple"] = 2 * MaxArg
    /\ "banana" \in DOMAIN stock_data
    /\ pc = "session"

\* C4: remove(item, qty) with valid arguments on an item present with
\* quantity c > 0 removes min(qty, c), leaves c minus that amount, and
\* appends exactly one entry "Removed {actual} of {item}" to the target log,
\* actual being the amount removed and not the amount requested.
C4_RemoveTakesMin ==
    [][(last_call' = "remove_item" /\ raised' = "none") =>
         \A item \in ValidItems, qty \in ValidQtys, logs \in LogsArgs :
            (/\ remove_item(item, qty, logs)
             /\ item.val \in DOMAIN stock_data
             /\ StockOf(item.val) > 0)
            => LET c == stock_data[item.val]
                   actual == IF qty.val <= c THEN qty.val ELSE c
               IN /\ DictGet(stock_data', item.val, 0) = c - actual
                  /\ Logged(logs, RemovedEntry(actual, item.val))]_vars

\* C4's case: a remove has emptied banana, and the caller's list ends with
\* the entry for the one banana removed (no caller asks for one of it: the
\* session asks for 0 or MaxArg).
C4_Witness ==
    /\ pc = "session"
    /\ last_call = "remove_item"
    /\ raised = "none"
    /\ ext_logs # << >>
    /\ Last(ext_logs) = RemovedEntry(1, "banana")
    /\ "banana" \notin DOMAIN stock_data
    /\ "apple" \in DOMAIN stock_data

\* A file from which load_data leaves the ledger of a new manager empty.
LoadsEmpty(f) ==
    \/ f.kind \in {"missing", "malformed"}
    \/ f.kind = "object" /\ LoopRaises(f.members) = "none"
                         /\ Cleaned(f.members) = EmptyDict

\* C5: remove(item, qty) with valid arguments on an item that is absent or
\* has quantity 0 raises nothing, leaves the ledger unchanged and appends to
\* no log; and in main(), from an empty ledger, add apple 10, add banana 2,
\* remove apple 3, remove orange 1 leave {apple: 7, banana: 2} and exactly
\* three entries after the one load_data wrote.
C5_RemoveAbsentIsNoOp ==
    /\ [][last_call' = "remove_item" =>
            \A item \in ValidItems, qty \in ValidQtys, logs \in LogsArgs :
               (remove_item(item, qty, logs) /\ StockOf(item.val) = 0)
               => (raised' = "none" /\ Untouched)]_vars
    /\ []((pc = "apple_stock" /\ LoadsEmpty(disk[DefaultFile]))
          => (/\ stock_data = [k \in {"apple", "banana"} |->
                                 IF k = "apple" THEN 7 ELSE 2]
              /\ Len(activity_log) = 4
              /\ SubSeq(activity_log, 2, 4) =
                    << AddedEntry(10, "apple"), AddedEntry(2, "banana"),
                       RemovedEntry(3, "apple") >>))

\* C5's case: main() has just removed one orange from a ledger that began
\* empty.
C5_Witness ==
    /\ pc = "apple_stock"
    /\ last_call = "remove_item"
    /\ LoadsEmpty(disk[DefaultFile])
    /\ "orange" \notin DOMAIN stock_data

\* The validation of add_item and of remove_item: the exception each raises.
AddFailure(item, qty) ==
    IF item.type # "str" \/ qty.type # "int" THEN "TypeError"
    ELSE IF item.val \in {"", "  "} \/ qty.val < 0 THEN "ValueError"
    ELSE "none"
RemoveFailure(item, qty) ==
    IF item.type # "str" \/ qty.type # "int" THEN "TypeError"
    ELSE IF qty.val < 0 THEN "ValueError"
    ELSE "none"

\* C6: an add or remove that fails validation (TypeError for an item that
\* is no string or a qty that is no integer, ValueError for a blank item on
\* add or a negative qty) leaves the ledger and both logs as they were; one
\* that does not fail updates the ledger and appends its entry.  (A call
\* that fails does not read its logs argument.)
C6_NoPartialApplication ==
    /\ [][(last_call' = "add_item" /\ raised' # "none") =>
            /\ Untouched
            /\ \A item \in CallItems, qty \in CallQtys :
                  add_item(item, qty, "None") => raised' = AddFailure(item, qty)]_vars
    /\ [][(last_call' = "add_item" /\ raised' = "none") =>
            \A item \in CallItems, qty \in CallQtys, logs \in LogsArgs :
               add_item(item, qty, logs) =>
                 /\ AddFailure(item, qty) = "none"
                 /\ \A k \in Keys :
                       /\ (k \in DOMAIN stock_data') =
                             (k \in DOMAIN stock_data \/ k = item.val)
                       /\ DictGet(stock_data', k, 0) =
                             IF k = item.val THEN StockOf(k) + qty.val
                             ELSE StockOf(k)
                 /\ Logged(logs, AddedEntry(qty.val, item.val))]_vars
    /\ [][(last_call' = "remove_item" /\ raised' # "none") =>
            /\ Untouched
            /\ \A item \in CallItems, qty \in CallQtys :
                  remove_item(item, qty, "None")
                  => raised' = RemoveFailure(item, qty)]_vars
    /\ [][(last_call' = "remove_item" /\ raised' = "none") =>
            \A item \in CallItems, qty \in CallQtys, logs \in LogsArgs :
               remove_item(item, qty, logs) =>
                 /\ RemoveFailure(item, qty) = "none"
                 /\ StockOf(item.val) # 0 =>
                      LET actual == IF qty.val <= StockOf(item.val)
                                    THEN qty.val ELSE StockOf(item.val)
                      IN /\ \A k \in Keys :
                               DictGet(stock_data', k, 0) =
                                  IF k = item.val THEN StockOf(k) - actual
                                  ELSE StockOf(k)
                         /\ Logged(logs, RemovedEntry(actual, item.val))]_vars

\* C6's case: an add_item has raised ValueError on a ledger and logs that
\* are not empty.
C6_Witness ==
    /\ last_call = "add_item"
    /\ raised = "ValueError"
    /\ stock_data # EmptyDict
    /\ activity_log # << >>
    /\ ext_logs # << >>

\* C7: save(path) followed at once by load(path) of the same path leaves the
\* ledger equal to the one saved.
C7_SaveLoadRoundTrip ==
    [][(last_call = "save_data" /\ raised = "none" /\ last_call' = "load_data") =>
         \A file \in Paths :
            (load_data(file) /\ Last(activity_log) = SavedEntry(file))
            => (raised' = "none" /\ stock_data' = stock_data)]_vars

\* C7's case: a ledger holding a quantity that is not positive was loaded,
\* saved and loaded again.
C7_Witness ==
    /\ last_call = "load_data"
    /\ Len(activity_log) = 3
    /\ activity_log[2] = SavedEntry(DefaultFile)
    /\ activity_log[3] = LoadedEntry(DefaultFile)
    /\ \E k \in DOMAIN stock_data : stock_data[k] <= 0

C9_MissingFileEmptiesLedger ==
    [][last_call' = "load_data" =>
         \A file \in Paths :
            (load_data(file) /\ disk[file].kind = "missing")
            => (/\ raised' = "none"
                /\ stock_data' = EmptyDict
                /\ activity_log' = Append(activity_log, NotFoundEntry)
                /\ ext_logs' = ext_logs)]_vars

\* C9's case: the file was found missing after an add had put stock in the
\* ledger.
C9_Witness ==
    /\ last_call = "load_data"
    /\ raised = "none"
    /\ Len(activity_log) = 2
    /\ activity_log[1] = AddedEntry(MaxArg, "apple")
    /\ activity_log[2] = NotFoundEntry
    /\ ext_logs = << >>
    /\ stock_data = EmptyDict

\* C10: across every step the activity log before the step is a prefix of
\* the activity log after it, which is at most one entry longer.
C10_LogAppendOnly ==
    [][\/ activity_log' = activity_log
       \/ /\ Len(activity_log') = Len(activity_log) + 1
          /\ SubSeq(activity_log', 1, Len(activity_log)) = activity_log]_vars

\* C10's case: the activity log holds three entries of three calls.
C10_Witness ==
    /\ Len(activity_log) = 3
    /\ activity_log[1].msg = "Loaded inventory from"
    /\ activity_log[2].msg = "Removed"
    /\ activity_log[3].msg = "Added"

====
